---- MODULE Spec2Model ----
(***************************************************************************)
(* Model of the XML-to-JSON-LD transform pipeline                          *)
(* (packages/xml-to-jsonld/src/index.ts).                                  *)
(*                                                                         *)
(* JavaScript values are tagged records:                                   *)
(*   [t |-> "undefined"], [t |-> "null"], [t |-> "NaN"],                   *)
(*   [t |-> "string", v |-> <<tokens>>], [t |-> "number", v |-> n],        *)
(*   [t |-> "boolean", v |-> b],                                           *)
(*   [t |-> "number", v |-> 0, neg |-> TRUE] (the number -0),              *)
(*   [t |-> "decimal", m |-> m, e |-> e] (the number m * 10^e when it is   *)
(*   no integer below 10^9), [t |-> "Infinity", neg |-> b],                *)
(*   [t |-> "array", v |-> <<values>>, ref |-> r],                         *)
(*   [t |-> "object", k |-> <<keys>>, v |-> <<values>>, ref |-> r]         *)
(* An object keeps its keys in Object.keys order.  ref is the identity of  *)
(* an array or object: a node of the tree given to transform carries its   *)
(* path in that tree, an array or object allocated during a call carries   *)
(* the empty path.  [t |-> "TypeError"] is what a read of a property of    *)
(* null or undefined leaves behind; a call that produced one has thrown.   *)
(* A string is the                                                         *)
(* sequence of tokens whose concatenation is the text: text that comes     *)
(* from the input document is one token per character, a literal of the    *)
(* program (markup, a type name, a default) is a single token.  A          *)
(* character that cannot stand in a string of this module is written as    *)
(* its JavaScript escape, e.g. the token "\\u201D".                        *)
(***************************************************************************)
EXTENDS Integers, Sequences, FiniteSets, TLC

(* ---------- bounds ---------- *)
MaxText == 2
MaxTopKeys == 2
MaxItems == 2

(* ---------- JavaScript values ---------- *)
Undef == [t |-> "undefined"]
Null == [t |-> "null"]
NaN == [t |-> "NaN"]
Str(s) == [t |-> "string", v |-> s]
Lit(s) == [t |-> "string", v |-> <<s>>]
Num(n) == [t |-> "number", v |-> n]
Bool(b) == [t |-> "boolean", v |-> b]
NegZero == [t |-> "number", v |-> 0, neg |-> TRUE]
Decimal(m, e) == [t |-> "decimal", m |-> m, e |-> e]
Infinity(neg) == [t |-> "Infinity", neg |-> neg]
TypeError == [t |-> "TypeError"]

(* the identity of what an array literal, an object literal, map, filter   *)
(* or flatMap allocates                                                    *)
Fresh == <<>>
Arr(s) == [t |-> "array", v |-> s, ref |-> Fresh]
Obj(ks, vs) == [t |-> "object", k |-> ks, v |-> vs, ref |-> Fresh]

EmptyStr == Str(<<>>)

(* Boolean(v): JavaScript truthiness. *)
Truthy(x) ==
  CASE x.t = "undefined" -> FALSE
    [] x.t = "null" -> FALSE
    [] x.t = "NaN" -> FALSE
    [] x.t = "string" -> x.v # <<>>
    [] x.t = "number" -> x.v # 0
    [] x.t = "boolean" -> x.v
    [] OTHER -> TRUE

(* Array.isArray(v) *)
IsArray(x) == x.t = "array"

(* o[key] / o.key.  A read on null or undefined throws a TypeError; a read *)
(* on a scalar or an array of a name that is not one of its own properties *)
(* gives undefined.                                                        *)
HasKey(o, key) == o.t = "object" /\ \E i \in 1..Len(o.k) : o.k[i] = key
Get(o, key) ==
  IF o.t \in {"undefined", "null", "TypeError"} THEN TypeError
  ELSE IF HasKey(o, key)
    THEN o.v[CHOOSE i \in 1..Len(o.k) : o.k[i] = key]
    ELSE Undef

(* optional chaining written as a plain read *)
GetOptStrict(o, key) == Get(o, key)

(* o?.key: undefined when o is null or undefined *)
GetOpt(o, key) == IF o.t \in {"undefined", "null"} THEN Undef ELSE Get(o, key)

(* a || b *)
Or(a, b) == IF Truthy(a) THEN a ELSE b

Map(s, F(_)) == [i \in 1..Len(s) |-> F(s[i])]

RECURSIVE Concat(_)
Concat(ss) == IF ss = <<>> THEN <<>> ELSE Head(ss) \o Concat(Tail(ss))

(* Array.prototype.filter(Boolean) *)
FilterBoolean(s) == SelectSeq(s, Truthy)

(* ---------- sequence normalizer ---------- *)
AAlwaysWraps(x) == IF Truthy(x) THEN Arr(<<x>>) ELSE Arr(<<>>)

A(x) == IF Truthy(x) THEN (IF IsArray(x) THEN x ELSE Arr(<<x>>)) ELSE Arr(<<>>)

(* ---------- String(v) and Number(v) ---------- *)
Digits == <<"0", "1", "2", "3", "4", "5", "6", "7", "8", "9">>
IsDigit(c) == \E d \in 1..10 : Digits[d] = c
DigitVal(c) == (CHOOSE d \in 1..10 : Digits[d] = c) - 1

RECURSIVE NatToTokens(_)
NatToTokens(n) ==
  IF n < 10 THEN <<Digits[n + 1]>>
  ELSE NatToTokens(n \div 10) \o <<Digits[(n % 10) + 1]>>

Zeros(n) == [i \in 1..n |-> "0"]

(* Number::toString of m * 10^e: plain digits while the decimal point lies *)
(* within 21 places left and 6 places right of the first digit, exponent   *)
(* notation beyond                                                         *)
DecimalToTokens(m, e) ==
  LET ds == NatToTokens(IF m < 0 THEN 0 - m ELSE m)
      k == Len(ds)
      n == k + e
      x == n - 1
      body ==
        IF k <= n /\ n <= 21 THEN ds \o Zeros(n - k)
        ELSE IF 0 < n /\ n <= 21
          THEN SubSeq(ds, 1, n) \o <<".">> \o SubSeq(ds, n + 1, k)
        ELSE IF -6 < n /\ n <= 0
          THEN <<"0", ".">> \o Zeros(0 - n) \o ds
        ELSE <<ds[1]>> \o (IF k > 1 THEN <<".">> \o SubSeq(ds, 2, k) ELSE <<>>)
             \o <<"e">> \o (IF x >= 0 THEN <<"+">> \o NatToTokens(x)
                                        ELSE <<"-">> \o NatToTokens(0 - x))
  IN  (IF m < 0 THEN <<"-">> ELSE <<>>) \o body

RECURSIVE ToStringTokens(_)
ToStringTokens(x) ==
  CASE x.t = "undefined" -> <<"u", "n", "d", "e", "f", "i", "n", "e", "d">>
    [] x.t = "null" -> <<"n", "u", "l", "l">>
    [] x.t = "NaN" -> <<"N", "a", "N">>
    [] x.t = "TypeError" -> <<"TypeError">>
    [] x.t = "string" -> x.v
    [] x.t = "number" ->
         IF x.v < 0 THEN <<"-">> \o NatToTokens(0 - x.v) ELSE NatToTokens(x.v)
    [] x.t = "decimal" -> DecimalToTokens(x.m, x.e)
    [] x.t = "Infinity" ->
         (IF x.neg THEN <<"-">> ELSE <<>>) \o <<"I", "n", "f", "i", "n", "i", "t", "y">>
    [] x.t = "boolean" ->
         IF x.v THEN <<"t", "r", "u", "e">> ELSE <<"f", "a", "l", "s", "e">>
    [] x.t = "array" ->
         Concat([i \in 1..Len(x.v) |->
                   (IF i > 1 THEN <<",">> ELSE <<>>)
                   \o (IF x.v[i].t \in {"undefined", "null"} THEN <<>>
                       ELSE ToStringTokens(x.v[i]))])
    [] x.t = "object" /\ \E i \in 1..Len(x.k) : x.k[i] = "toString" ->
         <<"TypeError">>
    [] OTHER -> <<"[", "o", "b", "j", "e", "c", "t", " ",
                  "O", "b", "j", "e", "c", "t", "]">>

RECURSIVE DecimalValue(_)
DecimalValue(s) ==
  IF s = <<>> THEN 0
  ELSE 10 * DecimalValue(SubSeq(s, 1, Len(s) - 1)) + DigitVal(s[Len(s)])

(* StrWhiteSpaceChar: white space and line terminators *)
WhiteSpace ==
  { " ", "\t", "\n", "\f", "\r", "", " ", "﻿", " ",
    "\\u2000", "\\u2001", "\\u2002", "\\u2003", "\\u2004", "\\u2005",
    "\\u2006", "\\u2007", "\\u2008", "\\u2009", "\\u200A", "\\u2028",
    "\\u2029", "\\u202F", "\\u205F", "\\u3000" }

RECURSIVE TrimStart(_)
TrimStart(s) ==
  IF s # <<>> /\ Head(s) \in WhiteSpace THEN TrimStart(Tail(s)) ELSE s
RECURSIVE TrimEnd(_)
TrimEnd(s) ==
  IF s # <<>> /\ s[Len(s)] \in WhiteSpace
    THEN TrimEnd(SubSeq(s, 1, Len(s) - 1)) ELSE s
Trim(s) == TrimEnd(TrimStart(s))

AllDigits(s) == \A i \in 1..Len(s) : IsDigit(s[i])

HexLower == <<"0", "1", "2", "3", "4", "5", "6", "7", "8", "9",
              "a", "b", "c", "d", "e", "f">>
HexUpper == <<"0", "1", "2", "3", "4", "5", "6", "7", "8", "9",
              "A", "B", "C", "D", "E", "F">>
IsRadixDigit(c, base) == \E d \in 1..base : HexLower[d] = c \/ HexUpper[d] = c
RadixDigitVal(c) == (CHOOSE d \in 1..16 : HexLower[d] = c \/ HexUpper[d] = c) - 1
RECURSIVE RadixValue(_, _)
RadixValue(s, base) ==
  IF s = <<>> THEN 0
  ELSE base * RadixValue(SubSeq(s, 1, Len(s) - 1), base) + RadixDigitVal(s[Len(s)])

(* the base a 0x, 0o or 0b prefix announces, 0 when there is no prefix *)
RadixOf(s) ==
  IF Len(s) < 2 \/ s[1] # "0" THEN 0
  ELSE CASE s[2] \in {"x", "X"} -> 16
         [] s[2] \in {"o", "O"} -> 8
         [] s[2] \in {"b", "B"} -> 2
         [] OTHER -> 0

RECURSIVE Pow10(_)
Pow10(n) == IF n = 0 THEN 1 ELSE 10 * Pow10(n - 1)

(* m * 10^e without the trailing zeros of m *)
RECURSIVE StripZeros(_, _)
StripZeros(m, e) ==
  IF m # 0 /\ m % 10 = 0 THEN StripZeros(m \div 10, e + 1) ELSE <<m, e>>

(* Natural numbers of any size: the sequence of their base-10000 digits,   *)
(* most significant first and without leading zeros; zero is <<>>.         *)
RECURSIVE BigOfNat(_)
BigOfNat(n) == IF n = 0 THEN <<>> ELSE Append(BigOfNat(n \div 10000), n % 10000)
(* the sequence that holds the values of the function f on 1..n *)
LimbSeq(f) == f \o <<>>
BigNorm(a) ==
  IF \A i \in 1..Len(a) : a[i] = 0 THEN <<>>
  ELSE SubSeq(a, CHOOSE i \in 1..Len(a) : a[i] # 0 /\ \A j \in 1..(i - 1) : a[j] = 0,
              Len(a))
(* the digit of weight 10000^i *)
LimbAt(a, i) == IF i < Len(a) THEN a[Len(a) - i] ELSE 0
(* the digit of weight 10000^(i - 1) of the sum is the sum of the digits   *)
(* of that weight plus the carry, which is 1 when below i a pair of digits *)
(* overflows and all pairs between that one and i add up to 9999           *)
BigAdd(a, b) ==
  IF a = <<>> THEN b
  ELSE IF b = <<>> THEN a
  ELSE
  LET L == (IF Len(a) > Len(b) THEN Len(a) ELSE Len(b)) + 1
      s == LimbSeq([i \in 1..L |-> LimbAt(a, i - 1) + LimbAt(b, i - 1)])
      carry(i) == \E j \in 1..(i - 1) :
                    s[j] >= 10000 /\ \A l \in (j + 1)..(i - 1) : s[l] = 9999
  IN  BigNorm(LimbSeq([n \in 1..L |->
        (s[L + 1 - n] + (IF carry(L + 1 - n) THEN 1 ELSE 0)) % 10000]))
BigShift(a, i) == IF a = <<>> THEN <<>> ELSE a \o [n \in 1..i |-> 0]
(* a times one digit d: the low halves of the products of d and each       *)
(* digit, plus their high halves one place up                              *)
BigMulLimb(a, d) ==
  IF a = <<>> THEN <<>>
  ELSE BigAdd(BigNorm(LimbSeq([n \in 1..Len(a) |-> (a[n] * d) % 10000])),
              BigShift(BigNorm(LimbSeq([n \in 1..Len(a) |-> (a[n] * d) \div 10000])), 1))
(* a times the digits lo..hi of b *)
RECURSIVE BigMulRange(_, _, _, _)
BigMulRange(a, b, lo, hi) ==
  IF lo = hi THEN BigShift(BigMulLimb(a, LimbAt(b, lo)), lo)
  ELSE LET mid == lo + ((hi - lo) \div 2)
       IN  BigAdd(BigMulRange(a, b, lo, mid), BigMulRange(a, b, mid + 1, hi))
BigMul(a, b) ==
  IF a = <<>> \/ b = <<>> THEN <<>> ELSE BigMulRange(a, b, 0, Len(b) - 1)
RECURSIVE BigPow(_, _)
BigPow(b, n) ==
  IF n = 0 THEN <<1>>
  ELSE LET h == BigPow(b, n \div 2)
       IN  IF h = <<>> THEN <<>>
           ELSE IF n % 2 = 1 THEN BigMulLimb(BigMul(h, h), b) ELSE BigMul(h, h)
BigLess(a, b) ==
  \/ Len(a) < Len(b)
  \/ /\ Len(a) = Len(b)
     /\ \E i \in 1..Len(a) : a[i] < b[i] /\ \A j \in 1..(i - 1) : a[j] = b[j]

(* the digit at unit of the whole part of num / den, whose digits above    *)
(* unit are those of above: the greatest d with                            *)
(* (above + d * unit) * den <= num                                         *)
QuotientDigit(num, den, above, unit) ==
  LET fits(q) == ~BigLess(num, BigMul(den, BigOfNat(q)))
  IN  CHOOSE d \in 0..9 :
        /\ fits(above + d * unit)
        /\ d < 9 => ~fits(above + (d + 1) * unit)

(* the whole part of num / den, a quotient below 10^9, less its digits     *)
(* below unit                                                              *)
RECURSIVE BigDivTo(_, _, _)
BigDivTo(num, den, unit) ==
  IF unit = 1000000000 THEN 0
  ELSE LET above == BigDivTo(num, den, 10 * unit)
       IN  above + unit * QuotientDigit(num, den, above, unit)
BigDiv(num, den) == IF BigLess(num, den) THEN 0 ELSE BigDivTo(num, den, 1)

(* The doubles below 2^-1022 are the multiples k * 2^-1074.  The one       *)
(* nearest m * 10^e has k = floor(m * 10^e / 2^-1074 + 1/2), which is      *)
(* floor((m * 2^(e + 1075) + 5^(-e)) / (2 * 5^(-e))).  (A numeral of at    *)
(* most 10 digits never lies halfway between two doubles.)  Here e is      *)
(* below -323 and m below 2^31, so that k is below 10^9.                   *)
NearestSubnormal(m, e) ==
  BigDiv(BigAdd(BigMul(BigPow(2, e + 1075), BigOfNat(m)), BigPow(5, 0 - e)),
         BigMulLimb(BigPow(5, 0 - e), 2))

(* whether x lies strictly between lo and hi *)
BigBetween(lo, x, hi) == BigLess(lo, x) /\ BigLess(x, hi)

(* of the multiples below and below + 1 of 10^g the one nearer to          *)
(* k * 2^-1074, for kf = k * scale                                         *)
NearerMultiple(kf, two, below) ==
  IF BigLess(BigMulLimb(kf, 2),
             BigMul(two, BigAdd(BigMulLimb(BigOfNat(below), 2), <<1>>)))
    THEN below ELSE below + 1

(* Number::toString picks the decimal of fewest digits that reads back as  *)
(* the same double, the nearest one when there are several.  For the       *)
(* double k * 2^-1074 this is the nearest multiple of the coarsest 10^g    *)
(* that has a multiple strictly between the midpoints (2k - 1) * 2^-1075   *)
(* and (2k + 1) * 2^-1075.  ShortestFrom tries g, then g - 1, ...,         *)
(* starting from a g0 with k * 2^-1074 < 10^(g0 + 1).  It is given         *)
(* two = 2^(g0 + 1074) and scale = 5^(-g0) * 10^(g0 - g), for which        *)
(* k * 2^-1074 / 10^g is k * scale / two, and above, the whole part of     *)
(* k * 2^-1074 / 10^(g + 1).                                               *)
RECURSIVE ShortestFrom(_, _, _, _, _)
ShortestFrom(k, g, above, scale, two) ==
  LET kf == BigMul(scale, BigOfNat(k))
      round(below) ==
        LET q == NearerMultiple(kf, two, below)
        IN  IF q >= 1 /\ BigBetween(BigMul(scale, BigOfNat(2 * k - 1)),
                                    BigMul(two, BigMulLimb(BigOfNat(q), 2)),
                                    BigMul(scale, BigOfNat(2 * k + 1)))
              THEN StripZeros(q, g)
              ELSE ShortestFrom(k, g - 1, below, BigMulLimb(scale, 10), two)
  IN  round(10 * above + QuotientDigit(kf, two, 10 * above, 1))

(* the number (-1)^neg * m * 10^e as a double, named by the decimal        *)
(* Number::toString gives it: an integer below 10^9 is a number with that  *)
(* value; beyond the largest double the number is Infinity; a numeral      *)
(* whose last digit lies below 10^-323 is rounded to the nearest multiple  *)
(* of 2^-1074, which may be zero (the numeral is below 10^(k + e) for its  *)
(* k digits); any other numeral of up to 10 digits reads back as itself.   *)
(* An m other than 0 has at most 10 digits, so m * 10^e is beyond the      *)
(* largest double for every e from 400 on and rounds to zero for every e   *)
(* down from -400: such an e is read as 400 or -400.                       *)
MakeNumber(neg, m, e) ==
  LET signed(neg0, x) == IF neg0 THEN 0 - x ELSE x
      zero == IF neg THEN NegZero ELSE Num(0)
      named(n, k, r) ==
        IF \/ k + n[2] > 309
           \/ k + n[2] = 309 /\ k <= 9 /\ n[1] * Pow10(9 - k) > 179769313
           \/ k + n[2] = 309 /\ k > 9 /\ n[1] > 1797693134
          THEN Infinity(neg)
        ELSE IF r[2] >= 0 /\ k + n[2] <= 9 THEN Num(signed(neg, r[1]) * Pow10(r[2]))
        ELSE Decimal(signed(neg, r[1]), r[2])
      rounded(n, k, sub) ==
        IF sub = 0 THEN zero
        ELSE named(n, k, ShortestFrom(sub, k + n[2], 0, BigPow(5, 0 - (k + n[2])),
                                      BigPow(2, k + n[2] + 1074)))
      read(n, k) ==
        IF m = 0 THEN zero
        ELSE IF n[2] >= -323 THEN named(n, k, n)
        ELSE IF k + n[2] < -323 THEN zero
        ELSE rounded(n, k, NearestSubnormal(n[1], n[2]))
      within(e0) == read(StripZeros(m, e0), Len(NatToTokens(StripZeros(m, e0)[1])))
  IN  within(IF e > 400 THEN 400 ELSE IF e < -400 THEN -400 ELSE e)

(* the first position of s that holds a token of cs, 0 when there is none *)
FirstIndex(s, cs) ==
  IF \A i \in 1..Len(s) : s[i] \notin cs THEN 0
  ELSE CHOOSE i \in 1..Len(s) : s[i] \in cs /\ \A j \in 1..(i - 1) : s[j] \notin cs

(* the digits of s from its first to its last digit that is not 0 *)
SignificantDigits(s) ==
  IF \A i \in 1..Len(s) : s[i] = "0" THEN <<>>
  ELSE SubSeq(s, CHOOSE i \in 1..Len(s) : s[i] # "0" /\ \A j \in 1..(i - 1) : s[j] = "0",
              CHOOSE i \in 1..Len(s) : s[i] # "0" /\ \A j \in (i + 1)..Len(s) : s[j] = "0")

(* how many zeros end the digits s *)
TrailingZeros(s) ==
  IF \A i \in 1..Len(s) : s[i] = "0" THEN Len(s)
  ELSE Len(s) - (CHOOSE i \in 1..Len(s) : s[i] # "0" /\ \A j \in (i + 1)..Len(s) : s[j] = "0")

(* the digits s without the zeros that begin them *)
WithoutLeadingZeros(s) ==
  IF \A i \in 1..Len(s) : s[i] = "0" THEN <<>>
  ELSE SubSeq(s, CHOOSE i \in 1..Len(s) : s[i] # "0" /\ \A j \in 1..(i - 1) : s[j] = "0",
              Len(s))

(* the value of the exponent digits s, and 10^9 for every value from 10^9  *)
(* on: no numeral is long enough for such an exponent to leave its value   *)
(* between the smallest and the largest double                             *)
ExponentValue(s) ==
  IF Len(WithoutLeadingZeros(s)) > 9 THEN 1000000000
  ELSE DecimalValue(WithoutLeadingZeros(s))

(* StrUnsignedDecimalLiteral: digits, an optional point and fraction, an   *)
(* optional exponent; at least one digit before the exponent.  The zeros   *)
(* that end the digits are counted into the exponent                       *)
UnsignedDecimal(u, neg) ==
  LET ei == FirstIndex(u, {"e", "E"})
      ms == IF ei = 0 THEN u ELSE SubSeq(u, 1, ei - 1)
      es == IF ei = 0 THEN <<>> ELSE SubSeq(u, ei + 1, Len(u))
      eneg == es # <<>> /\ es[1] = "-"
      ed == IF es # <<>> /\ es[1] \in {"+", "-"} THEN Tail(es) ELSE es
      pi == FirstIndex(ms, {"."})
      ip == IF pi = 0 THEN ms ELSE SubSeq(ms, 1, pi - 1)
      fp == IF pi = 0 THEN <<>> ELSE SubSeq(ms, pi + 1, Len(ms))
      wellFormed ==
        /\ AllDigits(ip) /\ AllDigits(fp)
        /\ ip # <<>> \/ fp # <<>>
        /\ ei # 0 => (ed # <<>> /\ AllDigits(ed))
      exp == (IF eneg THEN 0 - ExponentValue(ed) ELSE ExponentValue(ed))
             - Len(fp) + TrailingZeros(ip \o fp)
  IN  IF wellFormed
        THEN MakeNumber(neg, DecimalValue(SignificantDigits(ip \o fp)), exp)
        ELSE NaN

(* Number(text), the StringNumericLiteral grammar: white space around the  *)
(* numeral is dropped and the empty text is 0; a 0x, 0o or 0b numeral      *)
(* takes no sign; a decimal numeral or Infinity may be signed; any other   *)
(* text is NaN.  A decimal numeral is followed as far as its digits,       *)
(* without the zeros that begin and end them, make a number below 2^31,    *)
(* whatever its exponent; a 0x, 0o or 0b numeral as far as its value is    *)
(* below 2^31.                                                             *)
StringToNumber(s) ==
  LET t == Trim(s)
      base == RadixOf(t)
      signed == t # <<>> /\ t[1] \in {"+", "-"}
      neg == t # <<>> /\ t[1] = "-"
      u == IF signed THEN Tail(t) ELSE t
  IN  IF t = <<>> THEN Num(0)
      ELSE IF base # 0
        THEN IF Len(t) > 2 /\ \A i \in 3..Len(t) : IsRadixDigit(t[i], base)
               THEN MakeNumber(FALSE, RadixValue(SubSeq(t, 3, Len(t)), base), 0)
               ELSE NaN
      ELSE IF u = <<"I", "n", "f", "i", "n", "i", "t", "y">> THEN Infinity(neg)
      ELSE UnsignedDecimal(u, neg)

ToNumber(x) ==
  CASE x.t = "undefined" -> NaN
    [] x.t = "null" -> Num(0)
    [] x.t = "NaN" -> NaN
    [] x.t = "string" -> StringToNumber(x.v)
    [] x.t \in {"number", "decimal", "Infinity"} -> x
    [] x.t = "boolean" -> IF x.v THEN Num(1) ELSE Num(0)
    [] OTHER ->
         LET s == ToStringTokens(x)
         IN  IF \E i \in 1..Len(s) : s[i] = "TypeError" THEN TypeError
             ELSE StringToNumber(s)

(* ---------- shared helpers ---------- *)
(* String.prototype.replaceAll(from, to) for a one-character pattern *)
ReplaceAll(s, from, to) ==
  Concat([i \in 1..Len(s) |-> IF s[i] = from THEN to ELSE <<s[i]>>])

(* esc with the ampersand replaced last instead of first *)
escAmpersandLast(x) ==
  LET s0 == IF x.t = "undefined" THEN <<>> ELSE ToStringTokens(x)
      s1 == ReplaceAll(s0, "<", <<"&", "l", "t", ";">>)
      s2 == ReplaceAll(s1, ">", <<"&", "g", "t", ";">>)
      s3 == ReplaceAll(s2, "\"", <<"&", "q", "u", "o", "t", ";">>)
  IN  ReplaceAll(s3, "&", <<"&", "a", "m", "p", ";">>)

(* esc: parameter default "" for undefined, String(s), then the four       *)
(* replacements in the order of the source.                                *)
esc(x) ==
  LET s0 == IF x.t = "undefined" THEN <<>> ELSE ToStringTokens(x)
      s1 == ReplaceAll(s0, "&", <<"&", "a", "m", "p", ";">>)
      s2 == ReplaceAll(s1, "<", <<"&", "l", "t", ";">>)
      s3 == ReplaceAll(s2, ">", <<"&", "g", "t", ";">>)
  IN  ReplaceAll(s3, "\"", <<"&", "q", "u", "o", "t", ";">>)

(* the test of clean without its empty-array half *)
PrunedNullishOnly(x) == x.t \in {"undefined", "null"}

(* the test of clean: o[k] == null || (Array.isArray(o[k]) && !o[k].length) *)
Pruned(x) == x.t \in {"undefined", "null"} \/ (IsArray(x) /\ Len(x.v) = 0)

RECURSIVE cleanDeep(_)
cleanDeep(x) ==
  IF x.t = "object"
    THEN LET keep == SelectSeq([i \in 1..Len(x.k) |-> i], LAMBDA i : ~Pruned(x.v[i]))
         IN  [x EXCEPT !.k = [j \in 1..Len(keep) |-> x.k[keep[j]]],
                        !.v = [j \in 1..Len(keep) |-> cleanDeep(x.v[keep[j]])]]
  ELSE IF x.t = "array"
    THEN [x EXCEPT !.v = [i \in 1..Len(x.v) |-> cleanDeep(x.v[i])]]
  ELSE x

RECURSIVE KeptSkipping(_, _)
KeptSkipping(vs, i) ==
  IF i > Len(vs) THEN <<>>
  ELSE IF Pruned(vs[i])
    THEN (IF i + 1 <= Len(vs) THEN <<i + 1>> ELSE <<>>) \o KeptSkipping(vs, i + 2)
    ELSE <<i>> \o KeptSkipping(vs, i + 1)
cleanSkipsAfterDelete(o) ==
  LET keep == KeptSkipping(o.v, 1)
  IN  [o EXCEPT !.k = [j \in 1..Len(keep) |-> o.k[keep[j]]],
                 !.v = [j \in 1..Len(keep) |-> o.v[keep[j]]]]

(* clean: delete every top-level key that passes the test, in place: the   *)
(* object returned is the object given                                     *)
clean(o) ==
  LET keep == SelectSeq([i \in 1..Len(o.k) |-> i], LAMBDA i : ~Pruned(o.v[i]))
  IN  [o EXCEPT !.k = [j \in 1..Len(keep) |-> o.k[keep[j]]],
                 !.v = [j \in 1..Len(keep) |-> o.v[keep[j]]]]

(* the unified output { html, jsonLd, meta } *)
Output(html, jsonLd, meta) == [html |-> html, jsonLd |-> jsonLd, meta |-> meta]

SchemaOrg == Lit("https://schema.org")

(* ---------- Article ---------- *)
article(Ax) ==
  LET author == Get(Ax, "author")
      person == GetOpt(author, "Person")
      org == GetOpt(author, "Organization")
      jsonLd == clean(Obj(
        <<"@context", "@type", "headline", "datePublished", "author", "image">>,
        << SchemaOrg,
           Lit("Article"),
           Get(Ax, "headline"),
           Get(Ax, "datePublished"),
           IF Truthy(person)
             THEN Obj(<<"@type", "name", "url">>,
                      <<Lit("Person"), Get(person, "name"), Get(person, "url")>>)
           ELSE IF Truthy(org)
             THEN Obj(<<"@type", "name", "url">>,
                      <<Lit("Organization"), Get(org, "name"), Get(org, "url")>>)
           ELSE Undef,
           GetOpt(GetOpt(Get(Ax, "image"), "ImageObject"), "url") >>))
      body == Or(Get(Ax, "body"), Obj(<<>>, <<>>))
      para(t) == <<"<p>">> \o esc(t) \o <<"</p>">>
      ps == Concat(Map(A(Get(body, "p")).v, para))
      sec(s) == <<"<section><h2>">> \o esc(Get(s, "title")) \o <<"</h2>">>
                \o Concat(Map(A(Get(s, "p")).v, para)) \o <<"</section>">>
      secs == Concat(Map(A(Get(body, "section")).v, sec))
      html == <<"<h1>">> \o esc(Or(Get(Ax, "headline"), Lit("Article")))
              \o <<"</h1>">> \o ps \o secs
  IN  Output(html, jsonLd,
             Obj(<<"title", "description">>,
                 <<Get(Ax, "headline"), Get(Ax, "description")>>))

(* ---------- HowTo ---------- *)
HowToStepEntry(s) ==
  Obj(<<"@type", "name", "text", "image">>,
      <<Lit("HowToStep"), Get(s, "name"), Get(s, "text"), Get(s, "image")>>)

HowToSectionEntry(sec) ==
  Obj(<<"@type", "name", "itemListElement">>,
      << Lit("HowToSection"),
         Get(sec, "name"),
         Arr(Map(FilterBoolean(Map(A(Get(sec, "step")).v,
                                   LAMBDA x : Get(x, "HowToStep"))),
                 HowToStepEntry)) >>)

(* the step array with the grouped sections put before the flat steps *)
HowToStepsSectionsFirst(H) ==
  LET flat == IF Truthy(Get(H, "step"))
                THEN Map(FilterBoolean(Map(A(Get(H, "step")).v,
                                           LAMBDA s : Get(s, "HowToStep"))),
                         HowToStepEntry)
                ELSE <<>>
      grouped == IF Truthy(Get(H, "section"))
                   THEN Map(FilterBoolean(Map(A(Get(H, "section")).v,
                                              LAMBDA s : Get(s, "HowToSection"))),
                            HowToSectionEntry)
                   ELSE <<>>
  IN  grouped \o flat

(* the step array of howto: flat steps, then grouped sections *)
HowToSteps(H) ==
  LET flat == IF Truthy(Get(H, "step"))
                THEN Map(FilterBoolean(Map(A(Get(H, "step")).v,
                                           LAMBDA s : Get(s, "HowToStep"))),
                         HowToStepEntry)
                ELSE <<>>
      grouped == IF Truthy(Get(H, "section"))
                   THEN Map(FilterBoolean(Map(A(Get(H, "section")).v,
                                              LAMBDA s : Get(s, "HowToSection"))),
                            HowToSectionEntry)
                   ELSE <<>>
  IN  flat \o grouped

(* the literal between a supply's name and its quantity, as the source    *)
(* file spells it: a space, U+00E2, U+20AC, U+201D, a space                *)
SupplySeparator == <<" â€", "\\u201D", " ">>

(* the inner function li of howto *)
li(s) ==
  <<"<li><strong>">> \o esc(Or(Get(s, "name"), EmptyStr)) \o <<"</strong>">>
  \o (IF Truthy(Get(s, "text"))
        THEN <<"<div>">> \o esc(Get(s, "text")) \o <<"</div>">> ELSE <<>>)
  \o (IF Truthy(Get(s, "image"))
        THEN <<"<figure><img src=\"">> \o esc(Get(s, "image"))
             \o <<"\" alt=\"\"></figure>">>
        ELSE <<>>)
  \o <<"</li>">>

howto(H) ==
  LET supplies == FilterBoolean(Concat(Map(A(Get(H, "supply")).v,
                     LAMBDA s : A(GetOpt(s, "HowToSupply")).v)))
      tools == FilterBoolean(Concat(Map(A(Get(H, "tool")).v,
                     LAMBDA s : A(GetOpt(s, "HowToTool")).v)))
      step == HowToSteps(H)
      jsonLd == clean(Obj(
        <<"@context", "@type", "name", "description", "totalTime",
          "supply", "tool", "step">>,
        << SchemaOrg,
           Lit("HowTo"),
           Get(H, "name"),
           Get(H, "description"),
           Get(H, "totalTime"),
           IF Len(supplies) # 0
             THEN Arr(Map(supplies, LAMBDA s :
                    Obj(<<"@type", "name", "requiredQuantity">>,
                        <<Lit("HowToSupply"), Get(s, "name"),
                          Get(s, "requiredQuantity")>>)))
             ELSE Undef,
           IF Len(tools) # 0
             THEN Arr(Map(tools, LAMBDA s :
                    Obj(<<"@type", "name">>, <<Lit("HowToTool"), Get(s, "name")>>)))
             ELSE Undef,
           Arr(step) >>))
      sup == IF Len(supplies) # 0
               THEN <<"<h2>Supplies</h2><ul>">>
                    \o Concat(Map(supplies, LAMBDA s :
                         <<"<li>">> \o esc(Get(s, "name"))
                         \o (IF Truthy(Get(s, "requiredQuantity"))
                               THEN SupplySeparator \o esc(Get(s, "requiredQuantity"))
                               ELSE <<>>)
                         \o <<"</li>">>))
                    \o <<"</ul>">>
               ELSE <<>>
      tl == IF Len(tools) # 0
              THEN <<"<h2>Tools</h2><ul>">>
                   \o Concat(Map(tools, LAMBDA s :
                        <<"<li>">> \o esc(Get(s, "name")) \o <<"</li>">>))
                   \o <<"</ul>">>
              ELSE <<>>
      stepsHtml == Concat(Map(step, LAMBDA s :
                     IF Get(s, "@type") = Lit("HowToSection")
                       THEN <<"<section><h2>">> \o esc(Get(s, "name"))
                            \o <<"</h2><ol>">>
                            \o Concat(Map(Get(s, "itemListElement").v, li))
                            \o <<"</ol></section>">>
                       ELSE li(s)))
      html == <<"<h1>">> \o esc(Or(Get(H, "name"), Lit("HowTo"))) \o <<"</h1>">>
              \o (IF Truthy(Get(H, "description"))
                    THEN <<"<p>">> \o esc(Get(H, "description")) \o <<"</p>">>
                    ELSE <<>>)
              \o sup \o tl \o <<"<h2>Steps</h2><ol>">> \o stepsHtml \o <<"</ol>">>
  IN  Output(html, jsonLd,
             Obj(<<"title", "description">>,
                 <<Get(H, "name"), Get(H, "description")>>))

(* ---------- BreadcrumbList ---------- *)
ListItemEntry(it) ==
  Obj(<<"@type", "position", "name", "item">>,
      <<Lit("ListItem"), ToNumber(Get(it, "position")), Get(it, "name"),
        Get(it, "item")>>)

(* the entries renumbered 1..n by array index *)
BreadcrumbEntriesRenumbered(items) ==
  [i \in 1..Len(items) |->
     Obj(<<"@type", "position", "name", "item">>,
         <<Lit("ListItem"), Num(i), Get(items[i], "name"), Get(items[i], "item")>>)]

(* items.map(...) of breadcrumbs: one entry per item, in the order of items *)
BreadcrumbEntries(items) == Map(items, ListItemEntry)

(* the first element instead of the last *)
AtFirst(s) == IF Len(s) = 0 THEN Undef ELSE s[1]

(* Array.prototype.at(-1) *)
AtLast(s) == IF Len(s) = 0 THEN Undef ELSE s[Len(s)]

breadcrumbs(B) ==
  LET items == A(GetOpt(Get(B, "itemListElement"), "ListItem")).v
      jsonLd == Obj(<<"@context", "@type", "itemListElement">>,
                    <<SchemaOrg, Lit("BreadcrumbList"),
                      Arr(BreadcrumbEntries(items))>>)
      html == <<"<nav aria-label=\"Breadcrumb\"><ol>">>
              \o Concat(Map(items, LAMBDA it :
                   <<"<li><a href=\"">> \o esc(Or(Get(it, "item"), Lit("#")))
                   \o <<"\">">> \o esc(Get(it, "name")) \o <<"</a></li>">>))
              \o <<"</ol></nav>">>
      last == AtLast(items)
  IN  Output(html, jsonLd, Obj(<<"title">>, <<GetOpt(last, "name")>>))

(* ---------- Organization / LocalBusiness ---------- *)
organization(O) ==
  LET jsonLd == clean(Obj(
        <<"@context", "@type", "name", "url", "logo", "sameAs", "contactPoint">>,
        << SchemaOrg,
           Lit("Organization"),
           Get(O, "name"),
           Get(O, "url"),
           GetOpt(GetOpt(Get(O, "logo"), "ImageObject"), "url"),
           A(Get(O, "sameAs")),
           IF Truthy(Get(O, "contactPoint"))
             THEN Arr(Map(A(Get(Get(O, "contactPoint"), "ContactPoint")).v,
                    LAMBDA c :
                      Obj(<<"@type", "telephone", "contactType">>,
                          <<Lit("ContactPoint"), Get(c, "telephone"),
                            Get(c, "contactType")>>)))
             ELSE Undef >>))
      html == <<"<h1>">> \o esc(Get(O, "name")) \o <<"</h1>">>
              \o (IF Truthy(Get(O, "url"))
                    THEN <<"<p><a href=\"">> \o esc(Get(O, "url")) \o <<"\">">>
                         \o esc(Get(O, "url")) \o <<"</a></p>">>
                    ELSE <<>>)
  IN  Output(html, jsonLd, Obj(<<"title">>, <<Get(O, "name")>>))

localBusiness(L) ==
  LET addr == Or(Get(L, "address"), Obj(<<>>, <<>>))
      jsonLd == clean(Obj(
        <<"@context", "@type", "name", "url", "telephone", "address",
          "openingHoursSpecification", "sameAs">>,
        << SchemaOrg,
           Lit("LocalBusiness"),
           Get(L, "name"),
           Get(L, "url"),
           Get(L, "telephone"),
           IF Truthy(Get(L, "address"))
             THEN Obj(<<"@type", "streetAddress", "addressLocality",
                        "addressRegion", "postalCode", "addressCountry">>,
                      <<Lit("PostalAddress"), Get(addr, "streetAddress"),
                        Get(addr, "addressLocality"), Get(addr, "addressRegion"),
                        Get(addr, "postalCode"), Get(addr, "addressCountry")>>)
             ELSE Undef,
           IF Truthy(Get(L, "openingHoursSpecification"))
             THEN Arr(Map(A(Get(Get(L, "openingHoursSpecification"),
                                "OpeningHoursSpecification")).v,
                    LAMBDA o :
                      Obj(<<"@type", "dayOfWeek", "opens", "closes">>,
                          <<Lit("OpeningHoursSpecification"),
                            A(Get(o, "dayOfWeek")), Get(o, "opens"),
                            Get(o, "closes")>>)))
             ELSE Undef,
           A(Get(L, "sameAs")) >>))
      html == <<"<h1>">> \o esc(Get(L, "name")) \o <<"</h1>">>
              \o (IF Truthy(Get(L, "telephone"))
                    THEN <<"<p>">> \o esc(Get(L, "telephone")) \o <<"</p>">>
                    ELSE <<>>)
  IN  Output(html, jsonLd, Obj(<<"title">>, <<Get(L, "name")>>))

(* ---------- Product ---------- *)
(* the "From:" line taken from the last offer instead of the first *)
FromLineLastOffer(offers) ==
  IF Len(offers) # 0
    THEN <<"<p><strong>From:</strong> ">> \o esc(Get(offers[Len(offers)], "price"))
         \o <<" ">> \o esc(Get(offers[Len(offers)], "priceCurrency"))
         \o <<"</p>">>
    ELSE <<>>

(* the "From:" line of product: offers.length ? `<p>...offers[0]...</p>` : "" *)
FromLine(offers) ==
  IF Len(offers) # 0
    THEN <<"<p><strong>From:</strong> ">> \o esc(Get(offers[1], "price"))
         \o <<" ">> \o esc(Get(offers[1], "priceCurrency"))
         \o <<"</p>">>
    ELSE <<>>

product(P) ==
  LET offers == A(GetOpt(Get(P, "offers"), "Offer")).v
      brandName == GetOpt(GetOpt(Get(P, "brand"), "Brand"), "name")
      rating == Get(P, "aggregateRating")
      jsonLd == clean(Obj(
        <<"@context", "@type", "name", "description", "image", "brand",
          "sku", "gtin13", "offers", "aggregateRating">>,
        << SchemaOrg,
           Lit("Product"),
           Get(P, "name"),
           Get(P, "description"),
           Arr(FilterBoolean(Map(A(Get(P, "image")).v,
                 LAMBDA im : GetOpt(Get(im, "ImageObject"), "url")))),
           IF Truthy(brandName)
             THEN Obj(<<"@type", "name">>, <<Lit("Brand"), brandName>>)
             ELSE Undef,
           Get(P, "sku"),
           Get(P, "gtin13"),
           Arr(Map(offers, LAMBDA o :
                 Obj(<<"@type", "price", "priceCurrency", "availability">>,
                     <<Lit("Offer"), Get(o, "price"), Get(o, "priceCurrency"),
                       Get(o, "availability")>>))),
           IF Truthy(rating)
             THEN Obj(<<"@type", "ratingValue", "reviewCount">>,
                      <<Lit("AggregateRating"), Get(rating, "ratingValue"),
                        Get(rating, "reviewCount")>>)
             ELSE Undef >>))
      html == <<"<article>\n    <h1>">> \o esc(Get(P, "name")) \o <<"</h1>\n    ">>
              \o (IF Truthy(Get(P, "description"))
                    THEN <<"<p>">> \o esc(Get(P, "description")) \o <<"</p>">>
                    ELSE <<>>)
              \o <<"\n    ">>
              \o FromLine(offers)
              \o <<"\n  </article>">>
  IN  Output(html, jsonLd,
             Obj(<<"title", "description">>,
                 <<Get(P, "name"), Get(P, "description")>>))

(* ---------- transform ---------- *)
(* k.startsWith("?") *)
StartsWithQuestionMark(key) == Len(key) > 0 /\ Head(key) = "?"

(* a key as the string value find hands back *)
KeyString(key) == IF key = "" THEN EmptyStr ELSE Lit(key)
(* the property name a string value denotes *)
PropertyName(x) == IF x.v = <<>> THEN "" ELSE x.v[1]

(* what find returns when no key passes the test *)
NoKey == Undef

(* find taking the last matching key instead of the first *)
FindRootLast(d) ==
  LET idx == {i \in 1..Len(d.k) : ~StartsWithQuestionMark(d.k[i])}
  IN  IF idx = {} THEN NoKey
      ELSE KeyString(d.k[CHOOSE i \in idx : \A j \in idx : i >= j])

(* Object.keys(doc).find((k) => !k.startsWith("?")); undefined when none *)
FindRoot(d) ==
  LET idx == {i \in 1..Len(d.k) : ~StartsWithQuestionMark(d.k[i])}
  IN  IF idx = {} THEN NoKey
      ELSE KeyString(d.k[CHOOSE i \in idx : \A j \in idx : i <= j])

(* the missing-root test that never fires *)
RootIsFalsyNever(root) == FALSE

(* !root: no key found, or the key found is the empty string *)
RootIsFalsy(root) == ~Truthy(root)

Returned(out) ==
  [kind |-> "return", html |-> out.html, jsonLd |-> out.jsonLd,
   meta |-> out.meta, message |-> <<>>]

Thrown(message) ==
  [kind |-> "throw", html |-> <<>>, jsonLd |-> Undef, meta |-> Undef,
   message |-> message]

(* whether a value holds the trace of a thrown TypeError *)
RECURSIVE HasTypeError(_)
HasTypeError(x) ==
  \/ x.t = "TypeError"
  \/ x.t \in {"object", "array"} /\ \E i \in 1..Len(x.v) : HasTypeError(x.v[i])

(* the outcome of a mapper call: its record, or the TypeError thrown while *)
(* the record was being built                                              *)
Outcome(out) ==
  IF \/ HasTypeError(out.jsonLd)
     \/ HasTypeError(out.meta)
     \/ \E i \in 1..Len(out.html) : out.html[i] = "TypeError"
    THEN Thrown(<<"TypeError">>)
    ELSE Returned(out)

transform(d) ==
  LET root == FindRoot(d)
      data == Get(d, PropertyName(root))
  IN  IF RootIsFalsy(root) THEN Thrown(<<"No document root element found">>)
      ELSE CASE root = Lit("Article") -> Outcome(article(data))
             [] root = Lit("HowTo") -> Outcome(howto(data))
             [] root = Lit("BreadcrumbList") -> Outcome(breadcrumbs(data))
             [] root = Lit("OrgRoot") -> Outcome(organization(data))
             [] root = Lit("LocalBusiness") -> Outcome(localBusiness(data))
             [] root = Lit("Product") -> Outcome(product(data))
             [] OTHER -> Thrown(<<"Unsupported root: ">> \o ToStringTokens(root))

(* ---------- generic trees handed to transform ---------- *)
(* What the parser yields for an element: a repeated tag is an array, a    *)
(* single occurrence the node itself, no occurrence no key at all; an      *)
(* element with no content is the empty string.                            *)
Occurrences(s) ==
  IF Len(s) = 0 THEN Undef ELSE IF Len(s) = 1 THEN s[1] ELSE Arr(s)

(* an element with the given children; a child given as undefined is absent *)
Element(ks, vs) ==
  LET keep == SelectSeq([i \in 1..Len(ks) |-> i], LAMBDA i : vs[i] # Undef)
  IN  IF keep = <<>> THEN EmptyStr
      ELSE Obj([j \in 1..Len(keep) |-> ks[keep[j]]],
               [j \in 1..Len(keep) |-> vs[keep[j]]])

SeqsUpTo(S, n) == UNION {[1..k -> S] : k \in 0..n}

Chars == {"a", "&", "<", ">", "\""}
Texts == {Str(s) : s \in SeqsUpTo(Chars, MaxText)}
Optional(S) == S \cup {Undef}

TxA == Str(<<"a">>)
TxB == Str(<<"b", "<">>)
TxC == Str(<<"c", "&">>)
TxD == Str(<<"d">>)
TxUrl == Str(<<"/", "u">>)

ImageWrapper(u) == Element(<<"ImageObject">>, <<Element(<<"url">>, <<u>>)>>)

ArticleTrees ==
  { Element(<<"headline", "description", "datePublished", "author", "image", "body">>,
            <<t, TxB, TxD,
              Element(<<"Person">>, <<Element(<<"name", "url">>, <<t, TxUrl>>)>>),
              ImageWrapper(TxUrl),
              Element(<<"p", "section">>,
                      <<Arr(<<t, TxC>>),
                        Element(<<"title", "p">>, <<t, TxA>>)>>)>>)
      : t \in Texts }
  \cup
  { Element(<<"headline", "description", "datePublished", "author", "image", "body">>,
            <<h, d, d, au, im, bo>>)
      : h \in Optional({TxA}), d \in Optional({TxB}),
        au \in { Undef, EmptyStr,
                 Element(<<"Person">>, <<Element(<<"name">>, <<TxC>>)>>),
                 Element(<<"Organization">>,
                         <<Element(<<"name", "url">>, <<TxC, TxUrl>>)>>) },
        im \in {Undef, ImageWrapper(TxUrl), ImageWrapper(Undef)},
        bo \in { Undef, EmptyStr, Element(<<"p">>, <<TxC>>),
                 Element(<<"section">>,
                         <<Arr(<<Element(<<"title">>, <<TxA>>),
                                 Element(<<"title", "p">>,
                                         <<TxB, Arr(<<TxC, TxD>>)>>)>>)>>) } }

StepRecord(n, x, im) == Element(<<"name", "text", "image">>, <<n, x, im>>)
StepWrapper(r) == Obj(<<"HowToStep">>, <<r>>)
StepRecords == { EmptyStr, StepRecord(TxA, Undef, Undef), StepRecord(TxB, TxC, TxUrl) }
SectionRecord(n, steps) ==
  Element(<<"name", "step">>, <<n, Occurrences(Map(steps, StepWrapper))>>)
SectionWrapper(r) == Obj(<<"HowToSection">>, <<r>>)
SectionRecords ==
  { SectionRecord(TxC, <<>>),
    SectionRecord(TxD, <<StepRecord(TxB, Undef, Undef)>>),
    SectionRecord(TxA, <<StepRecord(TxD, TxA, Undef), StepRecord(TxA, Undef, Undef)>>) }
SupplyWrapper(n, q) ==
  Element(<<"HowToSupply">>, <<Element(<<"name", "requiredQuantity">>, <<n, q>>)>>)
ToolWrapper(n) == Element(<<"HowToTool">>, <<Element(<<"name">>, <<n>>)>>)

HowToTrees ==
  { Element(<<"name", "description", "totalTime", "supply", "tool", "step", "section">>,
            <<t, t, TxD, SupplyWrapper(t, t), ToolWrapper(t),
              StepWrapper(StepRecord(t, t, t)),
              SectionWrapper(SectionRecord(t, <<StepRecord(t, t, t)>>))>>)
      : t \in Texts }
  \cup
  { IF stepFirst
      THEN Element(<<"name", "step", "section">>,
                   <<TxA, Occurrences(Map(fs, StepWrapper)),
                     Occurrences(Map(ss, SectionWrapper))>>)
      ELSE Element(<<"section", "name", "step">>,
                   <<Occurrences(Map(ss, SectionWrapper)), TxA,
                     Occurrences(Map(fs, StepWrapper))>>)
      : fs \in SeqsUpTo(StepRecords, MaxItems),
        ss \in SeqsUpTo(SectionRecords, MaxItems),
        stepFirst \in BOOLEAN }
  \cup
  { Element(<<"name", "description", "totalTime", "supply", "tool">>,
            <<n, d, d, su, tl>>)
      : n \in Optional({TxA}), d \in Optional({TxB}),
        su \in { Undef, EmptyStr, SupplyWrapper(TxC, Undef),
                 Arr(<<SupplyWrapper(TxC, TxD), SupplyWrapper(TxA, Undef)>>) },
        tl \in { Undef, EmptyStr, ToolWrapper(TxD),
                 Arr(<<ToolWrapper(TxD), ToolWrapper(TxB)>>) } }

Positions ==
  { Undef, Num(1), Num(3), Str(<<"2">>), Str(<<"1", "0">>), Str(<<"a">>), Str(<<"2", "a">>) }
ListItems ==
  { Element(<<"position", "name", "item">>, <<p, ni[1], ni[2]>>)
      : p \in Positions, ni \in { <<Undef, Undef>>, <<TxA, TxUrl>>, <<TxB, Undef>> } }

BreadcrumbTrees ==
  { Element(<<"itemListElement">>,
            <<Element(<<"ListItem">>,
                      <<Element(<<"position", "name", "item">>, <<Num(1), t, t>>)>>)>>)
      : t \in Texts }
  \cup
  { Element(<<"itemListElement">>,
            <<Element(<<"ListItem">>, <<Occurrences(its)>>)>>)
      : its \in SeqsUpTo(ListItems, MaxItems) }
  \cup
  { Obj(<<"itemListElement">>, <<Obj(<<"ListItem">>, <<Arr(<<it>>)>>)>>)
      : it \in ListItems }

ContactWrapper(cs) ==
  Element(<<"ContactPoint">>,
          <<Occurrences(Map(cs, LAMBDA c :
               Element(<<"telephone", "contactType">>, <<c, TxD>>)))>>)

OrganizationTrees ==
  { Element(<<"name", "url", "logo", "sameAs", "contactPoint">>,
            <<t, t, ImageWrapper(t), t, ContactWrapper(<<t>>)>>)
      : t \in Texts }
  \cup
  { Element(<<"name", "url", "logo", "sameAs", "contactPoint">>,
            <<n, u, lo, sa, cp>>)
      : n \in Optional({TxA}), u \in Optional({TxUrl}),
        lo \in {Undef, ImageWrapper(TxUrl), ImageWrapper(Undef)},
        sa \in {Undef, EmptyStr, TxB, Arr(<<TxB, TxC>>)},
        cp \in { Undef, EmptyStr, ContactWrapper(<<>>), ContactWrapper(<<TxC>>),
                 ContactWrapper(<<TxC, Undef>>) } }

HoursWrapper(hs) ==
  Element(<<"OpeningHoursSpecification">>, <<Occurrences(hs)>>)
HoursRecord(days) ==
  Element(<<"dayOfWeek", "opens", "closes">>, <<Occurrences(days), TxC, TxD>>)

LocalBusinessTrees ==
  { Element(<<"name", "url", "telephone", "address", "openingHoursSpecification",
              "sameAs">>,
            <<t, t, t, Element(<<"streetAddress", "postalCode">>, <<t, t>>),
              HoursWrapper(<<HoursRecord(<<t>>)>>), t>>)
      : t \in Texts }
  \cup
  { Element(<<"name", "url", "telephone", "address", "openingHoursSpecification",
              "sameAs">>,
            <<n, n, te, ad, oh, sa>>)
      : n \in Optional({TxA}), te \in Optional({TxD}),
        ad \in { Undef, EmptyStr,
                 Element(<<"streetAddress", "addressLocality", "addressRegion",
                           "postalCode", "addressCountry">>,
                         <<TxA, TxB, Undef, TxC, TxD>>) },
        oh \in { Undef, EmptyStr, HoursWrapper(<<HoursRecord(<<>>)>>),
                 HoursWrapper(<<HoursRecord(<<TxA>>), HoursRecord(<<TxA, TxB>>)>>) },
        sa \in {Undef, TxB, Arr(<<TxB, TxC>>)} }

OfferRecord(pr, cu) ==
  Element(<<"price", "priceCurrency", "availability">>, <<pr, cu, TxD>>)
(* the offers field: absent, empty, one empty <Offer/>, one offer, two      *)
(* empty offers, an empty offer before an offer, two offers                *)
OffersFields ==
  { Undef, EmptyStr,
    Element(<<"Offer">>, <<EmptyStr>>),
    Element(<<"Offer">>, <<OfferRecord(Num(9), TxA)>>),
    Element(<<"Offer">>, <<Arr(<<EmptyStr, EmptyStr>>)>>),
    Element(<<"Offer">>, <<Arr(<<EmptyStr, OfferRecord(Num(5), TxB)>>)>>),
    Element(<<"Offer">>, <<Arr(<<OfferRecord(Num(9), TxA), OfferRecord(Num(5), TxB)>>)>>),
    Element(<<"Offer">>, <<Arr(<<OfferRecord(Undef, TxC), OfferRecord(Num(5), TxB)>>)>>) }

ProductTrees ==
  { Element(<<"name", "description", "image", "brand", "sku", "gtin13", "offers",
              "aggregateRating">>,
            <<t, t, ImageWrapper(t), Element(<<"Brand">>, <<Element(<<"name">>, <<t>>)>>),
              t, t, Element(<<"Offer">>, <<OfferRecord(t, t)>>),
              Element(<<"ratingValue", "reviewCount">>, <<t, t>>)>>)
      : t \in Texts }
  \cup
  { Element(<<"name", "description", "image", "brand", "sku", "gtin13", "offers",
              "aggregateRating">>,
            <<n, d, im, br, d, Undef, of, ra>>)
      : n \in Optional({TxA}), d \in Optional({TxB}),
        im \in { Undef, ImageWrapper(TxUrl),
                 Arr(<<ImageWrapper(TxUrl), ImageWrapper(Undef), ImageWrapper(TxC)>>) },
        br \in { Undef, EmptyStr,
                 Element(<<"Brand">>, <<Element(<<"name">>, <<TxC>>)>>) },
        of \in OffersFields,
        ra \in { Undef, Element(<<"ratingValue", "reviewCount">>, <<Num(4), Num(7)>>) } }

SupportedRoots ==
  {"Article", "HowTo", "BreadcrumbList", "OrgRoot", "LocalBusiness", "Product"}
(* keys a processing instruction of the document is parsed to *)
ProcessingInstructionKeys == {"?xml", "?xml-stylesheet"}
TopKeys ==
  ProcessingInstructionKeys \cup SupportedRoots
  \cup {"Recipe", "article", "Organization", "undefined", ""}

(* a small subtree to stand under a top-level key of a dispatch document *)
SampleTree(key) ==
  CASE key \in ProcessingInstructionKeys -> Obj(<<"version">>, <<Str(<<"1">>)>>)
    [] key = "BreadcrumbList" ->
         Obj(<<"itemListElement">>,
             <<Obj(<<"ListItem">>,
                   <<Obj(<<"position", "name">>, <<Num(1), TxA>>)>>)>>)
    [] key = "Article" -> Obj(<<"headline">>, <<TxA>>)
    [] OTHER -> Obj(<<"name">>, <<TxA>>)

Distinct(s) == \A i, j \in 1..Len(s) : i # j => s[i] # s[j]

DispatchDocs ==
  { Obj(ks, [i \in 1..Len(ks) |-> IF empty THEN EmptyStr ELSE SampleTree(ks[i])])
      : ks \in {s \in SeqsUpTo(TopKeys, MaxTopKeys) : Distinct(s)},
        empty \in BOOLEAN }

XmlDeclaration == Obj(<<"version">>, <<Str(<<"1">>)>>)
Document(root, tree) == Obj(<<"?xml", root>>, <<XmlDeclaration, tree>>)

MapperDocs ==
  {Document("Article", x) : x \in ArticleTrees}
  \cup {Document("HowTo", x) : x \in HowToTrees}
  \cup {Document("BreadcrumbList", x) : x \in BreadcrumbTrees}
  \cup {Document("OrgRoot", x) : x \in OrganizationTrees}
  \cup {Document("LocalBusiness", x) : x \in LocalBusinessTrees}
  \cup {Document("Product", x) : x \in ProductTrees}

Docs == DispatchDocs \cup MapperDocs

(* the tree as it lies in memory: every array and object has its own       *)
(* identity, here its path from the document                               *)
RECURSIVE Located(_, _)
Located(x, path) ==
  IF x.t \in {"object", "array"}
    THEN [x EXCEPT !.ref = path,
                   !.v = [i \in 1..Len(x.v) |-> Located(x.v[i], Append(path, i))]]
    ELSE x
DocRef == <<1>>

(* ---------- the state machine ---------- *)
(* doc, result: the tree given to transform and the outcome of the call;   *)
(* arg, ret: the value given to a helper (A, clean) called on its own and  *)
(* what its successive calls returned, each as it was on return; given:    *)
(* the value as it was before the first call (clean changes its argument   *)
(* in place); pc: how far the caller is.                                   *)
VARIABLES doc, pc, result, arg, ret, given

vars == <<doc, pc, result, arg, ret, given>>

NoResult ==
  [kind |-> "none", html |-> <<>>, jsonLd |-> Undef, meta |-> Undef,
   message |-> <<>>]

Init ==
  /\ doc \in {Located(d, DocRef) : d \in Docs}
  /\ pc = "ready"
  /\ result = NoResult
  /\ arg = Undef
  /\ ret = <<>>
  /\ given = arg

(* The tree after a call.  The one write of the program is the delete of   *)
(* clean, made in place on the object clean is given: a node of the tree   *)
(* that is that object has lost the keys.                                  *)
RECURSIVE WrittenBack(_, _)
WrittenBack(x, o) ==
  IF x.t \notin {"object", "array"} \/ o.t # "object" THEN x
  ELSE IF x.ref = o.ref THEN o
  ELSE [x EXCEPT !.v = [i \in 1..Len(x.v) |-> WrittenBack(x.v[i], o)]]

(* the caller's call transform(doc): returns the record or throws *)
Transform ==
  /\ pc = "ready"
  /\ result' = transform(doc)
  /\ pc' = "done"
  /\ doc' = WrittenBack(doc, result'.jsonLd)
  /\ UNCHANGED <<arg, ret, given>>

Next == Transform

Spec == Init /\ [][Next]_vars

(* ---------- the sequence normalizer called on its own ---------- *)
MaxKeys == 2

NoDoc == Obj(<<>>, <<>>)

ArrayElements == {EmptyStr, TxA, Num(0), Obj(<<"name">>, <<TxB>>)}
NormalizerArgs ==
  {Undef, Null, NaN, Num(0), Num(1), Num(7), Bool(FALSE), Bool(TRUE)}
  \cup Texts
  \cup {Obj(<<>>, <<>>), Obj(<<"name">>, <<TxA>>)}
  \cup {Arr(s) : s \in SeqsUpTo(ArrayElements, MaxItems)}

InitA ==
  /\ doc = NoDoc
  /\ pc = "ready"
  /\ result = NoResult
  /\ arg \in {Located(x, DocRef) : x \in NormalizerArgs}
  /\ ret = <<>>
  /\ given = arg

(* A(v) for a field value v *)
Normalize ==
  /\ pc = "ready"
  /\ ret' = <<A(arg)>>
  /\ pc' = "once"
  /\ UNCHANGED <<doc, result, arg, given>>

(* A([v]) for the same value given as a one-element array *)
NormalizeSingleton ==
  /\ pc = "once"
  /\ ret' = Append(ret, A(Arr(<<arg>>)))
  /\ pc' = "done"
  /\ UNCHANGED <<doc, result, arg, given>>

NextA == Normalize \/ NormalizeSingleton

SpecA == InitA /\ [][NextA]_vars

(* ---------- clean called on its own ---------- *)
CleanValues ==
  { Undef, Null, EmptyStr, Num(0), Bool(FALSE), TxA, Arr(<<>>), Arr(<<TxA>>),
    Obj(<<"url", "dayOfWeek">>, <<Undef, Arr(<<>>)>>) }
CleanKeys == <<"name", "url", "sameAs">>
CleanArgs ==
  { Obj(SubSeq(CleanKeys, 1, Len(vs)), vs) : vs \in SeqsUpTo(CleanValues, MaxKeys) }

InitClean ==
  /\ doc = NoDoc
  /\ pc = "ready"
  /\ result = NoResult
  /\ arg \in {Located(x, DocRef) : x \in CleanArgs}
  /\ ret = <<>>
  /\ given = arg

(* clean(o): the keys are deleted from the object given, which is the     *)
(* object returned                                                         *)
Clean ==
  /\ pc = "ready"
  /\ arg' = clean(arg)
  /\ ret' = <<arg'>>
  /\ pc' = "once"
  /\ UNCHANGED <<doc, result, given>>

(* clean applied to what clean returned, which is the object given *)
CleanAgain ==
  /\ pc = "once"
  /\ arg' = clean(ret[1])
  /\ ret' = Append(ret, arg')
  /\ pc' = "done"
  /\ UNCHANGED <<doc, result, given>>

NextClean == Clean \/ CleanAgain

SpecClean == InitClean /\ [][NextClean]_vars

(* ---------- what the properties speak of ---------- *)
Done == pc = "done"
Keys == doc.k

(* the position of the first top-level key that is not a processing       *)
(* instruction, 0 when every key is one                                    *)
FirstContentIndex ==
  IF \A i \in 1..Len(Keys) : Keys[i] \in ProcessingInstructionKeys THEN 0
  ELSE CHOOSE i \in 1..Len(Keys) :
         /\ Keys[i] \notin ProcessingInstructionKeys
         /\ \A j \in 1..(i - 1) : Keys[j] \in ProcessingInstructionKeys
RootKey == Keys[FirstContentIndex]
Subtree == doc.v[FirstContentIndex]
RootIs(name) == FirstContentIndex # 0 /\ RootKey = name
TypeNameOf(key) == IF key = "OrgRoot" THEN "Organization" ELSE key
EmitsNothing ==
  result.html = <<>> /\ result.jsonLd = Undef /\ result.meta = Undef

(* C1: a document whose first top-level key that is not a processing       *)
(* instruction is a supported root returns a record whose jsonLd has       *)
(* @context "https://schema.org" and @type that key (Organization for      *)
(* OrgRoot), whatever keys follow it.                                      *)
C1_RootTypeDispatch ==
  (Done /\ FirstContentIndex # 0 /\ RootKey \in SupportedRoots)
    => /\ result.kind = "return"
       /\ Get(result.jsonLd, "@context") = Lit("https://schema.org")
       /\ Get(result.jsonLd, "@type") = Lit(TypeNameOf(RootKey))

C1_Witness ==
  /\ Done
  /\ Keys = <<"OrgRoot", "Article">>
  /\ Get(result.jsonLd, "@type") = Lit("Organization")

(* C2: a document all of whose top-level keys are processing instructions  *)
(* (no key at all, or only "?xml") fails with the missing-root error and   *)
(* returns no output record.                                               *)
C2_MissingRoot ==
  (Done /\ FirstContentIndex = 0)
    => /\ result.kind = "throw"
       /\ result.message = <<"No document root element found">>
       /\ EmitsNothing

C2_Witness ==
  /\ Done
  /\ Keys = <<"?xml">>
  /\ result.kind = "throw"

(* C3: a document whose first top-level key that is not a processing       *)
(* instruction is not one of the six supported names fails with the        *)
(* unsupported-root error naming that key, and returns no output record,   *)
(* also when a later key is a supported name.                              *)
C3_UnsupportedRoot ==
  (Done /\ FirstContentIndex # 0 /\ RootKey \notin SupportedRoots)
    => /\ result.kind = "throw"
       /\ result.message = <<"Unsupported root: ", RootKey>>
       /\ EmitsNothing

(* the offers of a Product subtree: none when offers is absent or has no   *)
(* Offer child                                                             *)
ZeroOffers == ~HasKey(Get(Subtree, "offers"), "Offer")

(* C4 as stated: a Product with zero offers emits jsonLd.offers = [],      *)
(* present and not omitted.                                                *)
C4_OffersEmptyArrayPresent ==
  (Done /\ RootIs("Product") /\ ZeroOffers)
    => /\ HasKey(result.jsonLd, "offers")
       /\ IsArray(Get(result.jsonLd, "offers"))
       /\ Len(Get(result.jsonLd, "offers").v) = 0

(* C4 amended: a Product with zero offers emits a jsonLd without the key   *)
(* offers: the empty array is pruned like every other empty array.         *)
C4_OffersOmitted ==
  (Done /\ RootIs("Product") /\ ZeroOffers)
    => /\ result.kind = "return"
       /\ ~HasKey(result.jsonLd, "offers")

C4_Witness ==
  /\ Done
  /\ RootIs("Product")
  /\ Get(Subtree, "offers") = EmptyStr
  /\ HasKey(result.jsonLd, "name")
  /\ ~HasKey(result.jsonLd, "offers")

(* C5: the jsonLd emitted by any of the six mappers has no top-level key   *)
(* whose value is null, undefined or an empty array (offers of a Product   *)
(* excepted).                                                              *)
C5_NoEmptyTopLevelValue ==
  (Done /\ result.kind = "return")
    => \A i \in 1..Len(result.jsonLd.k) :
         \/ RootIs("Product") /\ result.jsonLd.k[i] = "offers"
         \/ /\ result.jsonLd.v[i] # Undef
            /\ result.jsonLd.v[i] # Null
            /\ ~(IsArray(result.jsonLd.v[i]) /\ Len(result.jsonLd.v[i].v) = 0)

(* ---------- reading html back ---------- *)
(* tokens that are one character of text: the characters of input text,    *)
(* of String(number) and of the four entities; every other token of html   *)
(* is markup written by a template                                         *)
TextTokens ==
  Chars \cup {"b", "c", "d", "/", "u", "&", ";", "l", "t", "g", "q", "o", "m", "p"}
  \cup {Digits[i] : i \in 1..10}

(* the maximal runs of text tokens of an html string, in order *)
RECURSIVE Runs(_, _)
Runs(h, cur) ==
  IF h = <<>> THEN (IF cur = <<>> THEN <<>> ELSE <<cur>>)
  ELSE IF Head(h) \in TextTokens THEN Runs(Tail(h), Append(cur, Head(h)))
  ELSE (IF cur = <<>> THEN <<>> ELSE <<cur>>) \o Runs(Tail(h), <<>>)
Segments(h) == Runs(h, <<>>)

Entities ==
  { <<"&", <<"&", "a", "m", "p", ";">> >>,
    <<"<", <<"&", "l", "t", ";">> >>,
    <<">", <<"&", "g", "t", ";">> >>,
    <<"\"", <<"&", "q", "u", "o", "t", ";">> >> }
StartsWith(s, pre) == Len(s) >= Len(pre) /\ SubSeq(s, 1, Len(pre)) = pre

(* one pass of entity decoding, left to right; a text that is not the      *)
(* escaped form of any text (a raw <, > or quote, an & that starts no      *)
(* entity) decodes to the token "invalid"                                  *)
RECURSIVE Unescape(_)
Unescape(s) ==
  IF s = <<>> THEN <<>>
  ELSE IF \E e \in Entities : StartsWith(s, e[2])
    THEN LET e == CHOOSE e \in Entities : StartsWith(s, e[2])
         IN  <<e[1]>> \o Unescape(SubSeq(s, Len(e[2]) + 1, Len(s)))
  ELSE IF Head(s) \in {"&", "<", ">", "\""} THEN <<"invalid">>
  ELSE <<Head(s)>> \o Unescape(Tail(s))

(* String(v) of every scalar of a tree *)
RECURSIVE LeafTexts(_)
LeafTexts(x) ==
  IF x.t \in {"object", "array"}
    THEN UNION {LeafTexts(x.v[i]) : i \in 1..Len(x.v)}
    ELSE {ToStringTokens(x)}

TitleKey == IF RootIs("Article") THEN "headline" ELSE "name"
TitleSource == Get(Subtree, TitleKey)

(* C6: every input text interpolated into html is escaped exactly once:    *)
(* html holds no raw <, > or quote character of input text, every run of   *)
(* text in html decodes in one pass to a text of the input tree, the       *)
(* heading decodes to the title text, and jsonLd and meta carry the title  *)
(* text verbatim.                                                          *)
C6_EscapedOnceInHtmlOnly ==
  (Done /\ result.kind = "return")
    => /\ \A i \in 1..Len(result.html) : result.html[i] \notin {"<", ">", "\""}
       /\ \A i \in 1..Len(Segments(result.html)) :
            Unescape(Segments(result.html)[i]) \in LeafTexts(Subtree)
       /\ (~RootIs("BreadcrumbList"))
            => /\ Truthy(TitleSource)
                    => Unescape(Segments(result.html)[1])
                         = ToStringTokens(TitleSource)
               /\ Get(result.jsonLd, TitleKey) = TitleSource
               /\ Get(result.meta, "title") = TitleSource

C6_Witness ==
  /\ Done
  /\ RootIs("Article")
  /\ Get(Subtree, "headline") = Str(<<"<", "&">>)
  /\ SubSeq(result.html, 1, 11)
       = <<"<h1>", "&", "l", "t", ";", "&", "a", "m", "p", ";", "</h1>">>
  /\ Get(result.jsonLd, "headline") = Str(<<"<", "&">>)
  /\ Get(result.meta, "title") = Str(<<"<", "&">>)

(* ---------- HowTo ---------- *)
(* the occurrences of a repeated child, in source order *)
SourceOccurrences(x) ==
  IF x = Undef THEN <<>> ELSE IF x.t = "array" THEN x.v ELSE <<x>>

(* the step records under a parent: the HowToStep child of each step       *)
(* wrapper that has a non-empty one, in source order                       *)
StepRecordsOf(parent) ==
  SelectSeq(Map(SourceOccurrences(Get(parent, "step")),
                LAMBDA w : Get(w, "HowToStep")),
            LAMBDA r : r.t = "object")
SectionRecordsOf(parent) ==
  SelectSeq(Map(SourceOccurrences(Get(parent, "section")),
                LAMBDA w : Get(w, "HowToSection")),
            LAMBDA r : r.t = "object")
ExpectedStep(r) ==
  Obj(<<"@type", "name", "text", "image">>,
      <<Lit("HowToStep"), Get(r, "name"), Get(r, "text"), Get(r, "image")>>)
ExpectedSection(r) ==
  Obj(<<"@type", "name", "itemListElement">>,
      <<Lit("HowToSection"), Get(r, "name"),
        Arr(Map(StepRecordsOf(r), ExpectedStep))>>)
EmittedSteps == SourceOccurrences(Get(result.jsonLd, "step"))

(* C7: jsonLd.step of a HowTo is one HowToStep per flat step record in     *)
(* source order followed by one HowToSection per section record in source  *)
(* order, each section with its own steps in source order, whichever of    *)
(* step and section came first in the source (the key is absent when       *)
(* there is neither a step nor a section).                                 *)
C7_FlatStepsThenSections ==
  (Done /\ RootIs("HowTo"))
    => /\ result.kind = "return"
       /\ EmittedSteps = Map(StepRecordsOf(Subtree), ExpectedStep)
                         \o Map(SectionRecordsOf(Subtree), ExpectedSection)

C7_Witness ==
  /\ Done
  /\ RootIs("HowTo")
  /\ Subtree.t = "object"
  /\ Subtree.k = <<"section", "name", "step">>
  /\ Len(StepRecordsOf(Subtree)) = 2
  /\ Len(SectionRecordsOf(Subtree)) = 2
  /\ Len(EmittedSteps) = 4
  /\ Get(EmittedSteps[2], "@type") = Lit("HowToStep")
  /\ Get(EmittedSteps[3], "@type") = Lit("HowToSection")
  /\ Len(Get(EmittedSteps[3], "itemListElement").v) = 2

(* ---------- BreadcrumbList ---------- *)
SourceItems ==
  SourceOccurrences(GetOpt(Get(Subtree, "itemListElement"), "ListItem"))

(* the number a declared position denotes: a number itself, or the value   *)
(* of a non-empty decimal numeral                                          *)
DeclaresNumber(it) ==
  LET p == Get(it, "position")
  IN  \/ p.t = "number"
      \/ p.t = "string" /\ p.v # <<>> /\ \A i \in 1..Len(p.v) : IsDigit(p.v[i])
DeclaredNumber(it) ==
  LET p == Get(it, "position")
  IN  IF p.t = "number" THEN p.v ELSE DecimalValue(p.v)
EmittedItems == Get(result.jsonLd, "itemListElement").v

(* C8: for a BreadcrumbList whose n items declare numeric positions,       *)
(* jsonLd.itemListElement has exactly n ListItem entries in source order   *)
(* and entry i carries, as a number, the position item i declares: no      *)
(* renumbering, no reordering.                                             *)
C8_PositionsVerbatim ==
  (Done /\ RootIs("BreadcrumbList")
        /\ \A i \in 1..Len(SourceItems) : DeclaresNumber(SourceItems[i]))
    => /\ result.kind = "return"
       /\ Len(EmittedItems) = Len(SourceItems)
       /\ \A i \in 1..Len(SourceItems) :
            /\ Get(EmittedItems[i], "@type") = Lit("ListItem")
            /\ Get(EmittedItems[i], "position") = Num(DeclaredNumber(SourceItems[i]))
            /\ Get(EmittedItems[i], "name") = Get(SourceItems[i], "name")
            /\ Get(EmittedItems[i], "item") = Get(SourceItems[i], "item")

C8_Witness ==
  /\ Done
  /\ RootIs("BreadcrumbList")
  /\ Len(SourceItems) = 2
  /\ Get(SourceItems[1], "position") = Str(<<"1", "0">>)
  /\ Get(SourceItems[2], "position") = Num(3)
  /\ Get(EmittedItems[1], "position") = Num(10)
  /\ Get(EmittedItems[2], "position") = Num(3)

(* C9: meta.title of a BreadcrumbList is the name of the last item in      *)
(* source order, also when another item declares a higher position; with   *)
(* no item the call returns and meta.title is absent.                      *)
C9_TitleIsLastItemName ==
  (Done /\ RootIs("BreadcrumbList"))
    => /\ result.kind = "return"
       /\ Len(SourceItems) >= 1
            => Get(result.meta, "title")
                 = Get(SourceItems[Len(SourceItems)], "name")
       /\ Len(SourceItems) = 0 => Get(result.meta, "title") = Undef

C9_Witness ==
  /\ Done
  /\ RootIs("BreadcrumbList")
  /\ Len(SourceItems) = 2
  /\ Get(SourceItems[1], "position") = Num(3)
  /\ Get(SourceItems[2], "position") = Num(1)
  /\ Get(SourceItems[1], "name") = TxA
  /\ Get(SourceItems[2], "name") = TxB
  /\ Get(result.meta, "title") = TxB

(* C10: a BreadcrumbList with an item whose position does not coerce to a  *)
(* number (text that is no numeral, or no position) makes transform fail   *)
(* and return no output record.                                            *)
C10_BadPositionFails ==
  (Done /\ RootIs("BreadcrumbList")
        /\ \E i \in 1..Len(SourceItems) :
             LET p == Get(SourceItems[i], "position")
             IN  \/ p = Undef
                 \/ p.t = "string" /\ \E j \in 1..Len(p.v) : ~IsDigit(p.v[j]))
    => /\ result.kind = "throw"
       /\ EmitsNothing

(* ---------- missing optional fields ---------- *)
CompleteRecord ==
  /\ result.kind = "return"
  /\ result.html # <<>>
  /\ result.jsonLd.t = "object"
  /\ result.meta.t = "object"

(* C11: for each supported root and every subtree, whatever optional       *)
(* fields are missing (the empty root element included), transform throws  *)
(* nothing and returns a record with html, jsonLd and meta; and a call     *)
(* that does not return the complete record returns nothing at all.        *)
C11_MissingOptionalFieldsNoError ==
  Done => /\ (FirstContentIndex # 0 /\ RootKey \in SupportedRoots)
               => CompleteRecord
          /\ CompleteRecord \/ (result.kind = "throw" /\ EmitsNothing)

C11_Witness ==
  /\ Done
  /\ RootIs("Article")
  /\ Subtree = EmptyStr
  /\ result.kind = "return"
  /\ result.html = <<"<h1>", "Article", "</h1>">>
  /\ result.jsonLd.k = <<"@context", "@type">>
  /\ Get(result.meta, "title") = Undef

(* ---------- identity of what is returned ---------- *)
(* the identities of the arrays and objects reachable from a value *)
RECURSIVE NodeRefs(_)
NodeRefs(x) ==
  IF x.t \in {"object", "array"}
    THEN {x.ref} \cup UNION {NodeRefs(x.v[i]) : i \in 1..Len(x.v)}
    ELSE {}
SharedWithInput ==
  (NodeRefs(result.jsonLd) \cup NodeRefs(result.meta)) \cap NodeRefs(doc)

(* C12: transform leaves the tree it is given as it was, and no array or   *)
(* object reachable from the returned jsonLd or meta is an array or object *)
(* of the input tree.  (What one call allocates is no object of another    *)
(* call, so two results can share a node only through the input tree.)     *)
C12_FreshResultInputUntouched ==
  /\ [][doc' = doc]_vars
  /\ []((Done /\ result.kind = "return") => SharedWithInput = {})

(* ---------- the sequence normalizer ---------- *)
(* the values JavaScript treats as false *)
FalsyValues == {Undef, Null, EmptyStr, Num(0), Bool(FALSE), NaN}

(* a single occurrence of a field: a scalar or a record, not a sequence *)
SingleOccurrence == arg.t \in {"string", "number", "boolean", "object"}

(* the three cases of A(arg): nothing for an absent or falsy value, the    *)
(* sequence itself for a sequence, the one-element sequence otherwise      *)
NormalizerCases ==
  pc # "ready" =>
    /\ IsArray(ret[1])
    /\ arg \in FalsyValues => ret[1].v = <<>>
    /\ IsArray(arg) => ret[1] = arg
    /\ (arg \notin FalsyValues /\ ~IsArray(arg)) => ret[1].v = <<arg>>

(* C13 as stated: A is total with the three cases above, and hence every   *)
(* single occurrence v of a field normalizes to the same elements as the   *)
(* one-element sequence [v]                                                *)
C13_SingleAndSingletonAlike ==
  /\ NormalizerCases
  /\ (pc = "done" /\ SingleOccurrence) => ret[1].v = ret[2].v

(* C13 amended: A is total with the three cases above, and every single    *)
(* occurrence v that is not falsy normalizes to the same elements as the   *)
(* one-element sequence [v]; a falsy occurrence (empty text, 0) normalizes *)
(* to nothing while [v] keeps it                                           *)
C13_TruthySingleAndSingletonAlike ==
  /\ NormalizerCases
  /\ (pc = "done" /\ SingleOccurrence) =>
       IF arg \in FalsyValues
         THEN ret[1].v = <<>> /\ ret[2].v = <<arg>>
         ELSE ret[1].v = ret[2].v

C13_Witness ==
  /\ pc = "done"
  /\ arg = EmptyStr
  /\ ret[1].v = <<>>
  /\ ret[2].v = <<EmptyStr>>

(* ---------- pruning ---------- *)
(* a value clean is to remove: null, undefined or an empty array *)
Removable(x) == x.t \in {"undefined", "null"} \/ (x.t = "array" /\ x.v = <<>>)

(* C14: clean(o) keeps every key of o, as o was given, whose value is      *)
(* neither null, undefined nor an empty array, with its value unchanged,   *)
(* and clean applied to what clean returned returns the same keys and      *)
(* values and leaves the object as the first call left it                  *)
C14_CleanIdempotentKeepsValues ==
  /\ pc \in {"once", "done"} =>
       \A i \in 1..Len(given.k) :
         ~Removable(given.v[i]) =>
           /\ HasKey(ret[1], given.k[i])
           /\ Get(ret[1], given.k[i]) = given.v[i]
  /\ pc = "done" =>
       /\ ret[2].k = ret[1].k
       /\ ret[2].v = ret[1].v
       /\ arg = ret[2]

(* an object given with an undefined name before a falsy text url has lost *)
(* the name and kept the url, and the second call changed nothing          *)
C14_Witness ==
  /\ pc = "done"
  /\ given.k = <<"name", "url">>
  /\ given.v = <<Undef, EmptyStr>>
  /\ ret[1].k = <<"url">>
  /\ ret[1].v = <<EmptyStr>>
  /\ ret[2] = ret[1]
  /\ arg = ret[1]

(* ---------- the "From:" line of a product ---------- *)
FromOpen == "<p><strong>From:</strong> "
FromLineStarts == {i \in 1..Len(result.html) : result.html[i] = FromOpen}

(* the Offer elements of the subtree, in source order *)
SourceOffers == SourceOccurrences(GetOpt(Get(Subtree, "offers"), "Offer"))

(* the offers field holds one Offer element and that element is empty *)
LoneEmptyOffer == SourceOffers = <<EmptyStr>>

(* the text a field is shown as: nothing when the field is missing *)
Shown(x) == IF x = Undef THEN <<>> ELSE ToStringTokens(x)

(* the html from position i on reads: escaped price, a space, escaped      *)
(* priceCurrency of offer o, then the end of the paragraph                 *)
ShowsOfferAt(i, o) ==
  LET rest == SubSeq(result.html, i + 1, Len(result.html))
  IN  \E a \in 0..Len(rest) : \E b \in 0..(Len(rest) - a) :
        /\ a + b + 2 <= Len(rest)
        /\ rest[a + 1] = " "
        /\ rest[a + b + 2] = "</p>"
        /\ Unescape(SubSeq(rest, 1, a)) = Shown(Get(o, "price"))
        /\ Unescape(SubSeq(rest, a + 2, a + b + 1)) = Shown(Get(o, "priceCurrency"))

(* C15 as stated: the html of a Product has a "From:" line exactly when    *)
(* the subtree has at least one offer, never more than one, and the line   *)
(* shows the escaped price and priceCurrency of the first offer in source  *)
(* order                                                                   *)
C15_FromLineIffAnyOffer ==
  (Done /\ RootIs("Product") /\ result.kind = "return")
    => /\ (FromLineStarts # {}) <=> (Len(SourceOffers) > 0)
       /\ Cardinality(FromLineStarts) <= 1
       /\ \A i \in FromLineStarts : ShowsOfferAt(i, SourceOffers[1])

(* C15 amended: the html of a Product has a "From:" line exactly when the  *)
(* subtree has at least one offer and not just a single empty one, never   *)
(* more than one, and the line shows the escaped price and priceCurrency   *)
(* of the first offer in source order (nothing for a field it lacks)       *)
C15_FromLineFirstOffer ==
  (Done /\ RootIs("Product") /\ result.kind = "return")
    => /\ (FromLineStarts # {}) <=> (Len(SourceOffers) > 0 /\ ~LoneEmptyOffer)
       /\ Cardinality(FromLineStarts) <= 1
       /\ \A i \in FromLineStarts : ShowsOfferAt(i, SourceOffers[1])

(* two offers, the second one cheaper: the line shows the price of the     *)
(* first                                                                   *)
C15_Witness ==
  /\ Done
  /\ RootIs("Product")
  /\ Len(SourceOffers) = 2
  /\ Get(SourceOffers[1], "price") = Num(9)
  /\ Get(SourceOffers[2], "price") = Num(5)
  /\ \E i \in FromLineStarts : result.html[i + 1] = "9"

(* ---------- nested entries ---------- *)
(* the objects nested below the top level of a value *)
RECURSIVE Inside(_)
Inside(x) ==
  IF x.t \in {"object", "array"}
    THEN UNION { (IF x.v[i].t = "object" THEN {x.v[i]} ELSE {}) \cup Inside(x.v[i])
                 : i \in 1..Len(x.v) }
    ELSE {}

(* the keys each typed entry is built with *)
EntryTypes ==
  { "Person", "Organization", "PostalAddress", "OpeningHoursSpecification",
    "ContactPoint", "Offer", "HowToSupply", "HowToTool", "HowToStep",
    "HowToSection", "ListItem", "Brand", "AggregateRating" }
EntryKeys(type) ==
  CASE type \in {"Person", "Organization"} -> <<"@type", "name", "url">>
    [] type = "PostalAddress" ->
         <<"@type", "streetAddress", "addressLocality", "addressRegion",
           "postalCode", "addressCountry">>
    [] type = "OpeningHoursSpecification" -> <<"@type", "dayOfWeek", "opens", "closes">>
    [] type = "ContactPoint" -> <<"@type", "telephone", "contactType">>
    [] type = "Offer" -> <<"@type", "price", "priceCurrency", "availability">>
    [] type = "HowToSupply" -> <<"@type", "name", "requiredQuantity">>
    [] type \in {"HowToTool", "Brand"} -> <<"@type", "name">>
    [] type = "HowToStep" -> <<"@type", "name", "text", "image">>
    [] type = "HowToSection" -> <<"@type", "name", "itemListElement">>
    [] type = "ListItem" -> <<"@type", "position", "name", "item">>
    [] type = "AggregateRating" -> <<"@type", "ratingValue", "reviewCount">>
TypedEntries ==
  { e \in Inside(result.jsonLd) :
      HasKey(e, "@type") /\ \E type \in EntryTypes : Get(e, "@type") = Lit(type) }
EntryType(e) == CHOOSE type \in EntryTypes : Get(e, "@type") = Lit(type)

(* C16: clean prunes the top level only: every typed entry nested in the   *)
(* emitted jsonLd has all the keys it is built with, in order, also those  *)
(* whose value is undefined or an empty array                              *)
C16_NestedEntriesNotPruned ==
  (Done /\ result.kind = "return")
    => \A e \in TypedEntries : e.k = EntryKeys(EntryType(e))

C16_Witness ==
  /\ Done
  /\ RootIs("LocalBusiness")
  /\ result.kind = "return"
  /\ \E e \in TypedEntries :
       /\ EntryType(e) = "OpeningHoursSpecification"
       /\ HasKey(e, "dayOfWeek")
       /\ IsArray(Get(e, "dayOfWeek"))
       /\ Get(e, "dayOfWeek").v = <<>>

====
